---------------------------- MODULE Spec2Model ----------------------------
(***************************************************************************)
(* Drive-thru optimizer (src/bad_2.js): the queueing helpers, the lane     *)
(* advisor, the spot allocator, the rebalancer, the Erlang-C estimator and *)
(* the useSimulation hook (start/pause, reset, parameter updates and the   *)
(* interval-driven step), as a state machine.                              *)
(*                                                                         *)
(* Numbers.  JavaScript numbers are modelled as extended rationals         *)
(* [n, d]: d > 0 is the finite value n/d in lowest terms, [1,0] is         *)
(* +Infinity, [-1,0] is -Infinity and [0,0] is NaN.  Rounding of binary    *)
(* floating point is not modelled.                                         *)
(* Rates are kept in tenths per minute (RateScale), times in 1/1300 of a   *)
(* minute (TimeScale), so that minutesPerTick and every 1/serviceRate the  *)
(* model uses are integers.                                                *)
(***************************************************************************)
EXTENDS Integers, Sequences, FiniteSets, TLC

VARIABLES
    running,      \* useState(false): the interval exists iff running
    now,          \* useState(0): the simulated clock (time units)
    params,       \* useState({...}): the parameter object
    queues,       \* useState({...}): the arrays the current render shows
    spots,        \* useState(generateSpots): the inventory the render shows
    metrics,      \* useRef: arrivals, served, parked, avgWait, maxWip, history
    nextArrival,  \* useRef: countdown to the next arrival (time units)
    orderClock,   \* useRef: {A, B}
    payClock,     \* useRef
    pickupClock,  \* useRef
    closure,      \* what the interval's step closed over: now, queues, spots
    nextId,       \* the next identity uid() hands out
    admitted,     \* the arrivals of the last step, each with what it saw
    events,       \* the stages of the last step, each with the state before and after
    commands,     \* how many commands the user has issued
    call,         \* pure-function specifications: the arguments of the call
    ret           \* pure-function specifications: what the call returned

vars == <<running, now, params, queues, spots, metrics, nextArrival, orderClock,
          payClock, pickupClock, closure, nextId, admitted, events, commands,
          call, ret>>

---------------------------------------------------------------------------
(* Bounds of the model *)

MaxServers == 3       \* server counts drawn for the pure-function checks
MaxQueueLen == 2      \* queue lengths drawn for the pure-function checks
NumSpots == 3         \* the inventory is cut to its first NumSpots spots
MaxCars == 3          \* uid() hands out at most MaxCars identities
MaxTicks == 3         \* the clock is advanced at most MaxTicks times per run
MaxArrivalsPerStep == 2
MaxCommands == 3      \* start, pause, reset and parameter updates, all told
MaxErlangS == 3       \* server counts drawn for erlangC

(* Scales and program constants *)

RateScale == 10       \* a rate r stands for r/10 per minute
TimeScale == 1300     \* a time t stands for t/1300 minutes
minutesPerTick == 104 \* 0.08 min
SpotCols == 14
EpsilonInv == 1000000 \* 1e-6

---------------------------------------------------------------------------
(* Extended rational arithmetic: the IEEE operations on +-Infinity and NaN *)

Abs(x) == IF x < 0 THEN -x ELSE x

RECURSIVE GCD(_, _)
GCD(a, b) == IF b = 0 THEN a ELSE GCD(b, a % b)

Infinity == [n |-> 1, d |-> 0]
NegInfinity == [n |-> -1, d |-> 0]
NaN == [n |-> 0, d |-> 0]

IsNaN(a) == a.d = 0 /\ a.n = 0
IsFinite(a) == a.d > 0

\* the JavaScript quotient n / d of two integers
Num(n, d) ==
    IF d = 0 THEN (IF n > 0 THEN Infinity ELSE IF n < 0 THEN NegInfinity ELSE NaN)
    ELSE LET sn == IF d < 0 THEN -n ELSE n
             sd == Abs(d)
             g == GCD(Abs(sn), sd)
         IN [n |-> sn \div g, d |-> sd \div g]

Int2Num(i) == [n |-> i, d |-> 1]

Sign(a) == IF a.n > 0 THEN 1 ELSE IF a.n < 0 THEN -1 ELSE 0

NumAdd(a, b) ==
    IF IsNaN(a) \/ IsNaN(b) THEN NaN
    ELSE IF ~IsFinite(a) /\ ~IsFinite(b) THEN (IF a.n = b.n THEN a ELSE NaN)
    ELSE IF ~IsFinite(a) THEN a
    ELSE IF ~IsFinite(b) THEN b
    ELSE Num(a.n * b.d + b.n * a.d, a.d * b.d)

NumNeg(a) == [n |-> -a.n, d |-> a.d]

NumSub(a, b) == NumAdd(a, NumNeg(b))

NumMul(a, b) ==
    IF IsNaN(a) \/ IsNaN(b) THEN NaN
    ELSE IF ~IsFinite(a) \/ ~IsFinite(b)
         THEN (IF Sign(a) * Sign(b) > 0 THEN Infinity
               ELSE IF Sign(a) * Sign(b) < 0 THEN NegInfinity ELSE NaN)
    ELSE Num(a.n * b.n, a.d * b.d)

NumDiv(a, b) ==
    IF IsNaN(a) \/ IsNaN(b) THEN NaN
    ELSE IF ~IsFinite(b) THEN (IF IsFinite(a) THEN Int2Num(0) ELSE NaN)
    ELSE IF ~IsFinite(a) THEN (IF b.n < 0 THEN NumNeg(a) ELSE a)
    ELSE Num(a.n * b.d, a.d * b.n)

\* n1/d1 < n2/d2 for d1, d2 > 0, by integer parts and reciprocals of the
\* remainders (no product of the two fractions' terms is formed)
RECURSIVE FracLess(_, _, _, _)
FracLess(n1, d1, n2, d2) ==
    LET q1 == n1 \div d1
        q2 == n2 \div d2
        r1 == n1 % d1
        r2 == n2 % d2
    IN IF q1 # q2 THEN q1 < q2
       ELSE IF r2 = 0 THEN FALSE
       ELSE IF r1 = 0 THEN TRUE
       ELSE FracLess(d2, r2, d1, r1)

\* a < b as JavaScript compares: false whenever NaN is involved
NumLess(a, b) ==
    IF IsNaN(a) \/ IsNaN(b) THEN FALSE
    ELSE IF ~IsFinite(a) THEN a.n < 0 /\ ~(b.d = 0 /\ b.n < 0)
    ELSE IF ~IsFinite(b) THEN b.n > 0
    ELSE FracLess(a.n, a.d, b.n, b.d)

NumLeq(a, b) == ~IsNaN(a) /\ ~IsNaN(b) /\ (a = b \/ NumLess(a, b))

NumMax(a, b) == IF IsNaN(a) \/ IsNaN(b) THEN NaN ELSE IF NumLess(a, b) THEN b ELSE a

RECURSIVE NumPow(_, _)
NumPow(a, k) == IF k <= 0 THEN Int2Num(1) ELSE NumMul(a, NumPow(a, k - 1))

\* floor of the square root, by bisection on [lo, hi)
RECURSIVE SqrtBetween(_, _, _)
SqrtBetween(v, lo, hi) ==
    IF hi - lo <= 1 THEN lo
    ELSE LET mid == (lo + hi) \div 2
         IN IF mid * mid <= v THEN SqrtBetween(v, mid, hi) ELSE SqrtBetween(v, lo, mid)

ISqrt(v) == SqrtBetween(v, 0, 46340)

---------------------------------------------------------------------------
(* Queue model helpers *)

Lanes == <<"A", "B">>

\* predictedQueueTime with the guard put on the product rate * servers
predictedQueueTimeProductGuard(q, rate, servers) ==
    IF rate * servers <= 0 THEN Infinity
    ELSE Num(q * RateScale, rate * servers)

\* predictedQueueTime(q, rate, servers), in minutes
predictedQueueTime(q, rate, servers) ==
    IF rate <= 0 \/ servers <= 0 THEN Infinity
    ELSE Num(q * RateScale, rate * servers)

mobileFactor(isMobile) == IF isMobile THEN Num(55, 100) ELSE Int2Num(1)

\* the total chooseBestLane computes for lane L
LaneTotal(sys, isMobile, L) ==
    LET tOrder == predictedQueueTime(Len(sys.queues.order[L]), sys.params.orderRate,
                                     sys.params.orderServers[L])
        tPay == predictedQueueTime(Len(sys.queues.pay), sys.params.payRate,
                                   sys.params.payServers)
        tPickup == predictedQueueTime(Len(sys.queues.pickup), sys.params.pickupRate,
                                      sys.params.pickupServers)
    IN NumAdd(NumAdd(NumMul(tOrder, mobileFactor(isMobile)), tPay), tPickup)

\* the loop's comparison with <= in place of <
BestLaneStepLeq(acc, sys, isMobile, L) ==
    LET total == LaneTotal(sys, isMobile, L)
    IN IF NumLeq(total, acc.eta) THEN [lane |-> L, eta |-> total] ELSE acc

\* one iteration of the loop over the lanes
BestLaneStep(acc, sys, isMobile, L) ==
    LET total == LaneTotal(sys, isMobile, L)
    IN IF NumLess(total, acc.eta) THEN [lane |-> L, eta |-> total] ELSE acc

chooseBestLane(sys, isMobile) ==
    BestLaneStep(BestLaneStep([lane |-> Lanes[1], eta |-> Infinity], sys, isMobile, Lanes[1]),
                 sys, isMobile, Lanes[2])

---------------------------------------------------------------------------
(* Spot allocator *)

NoSpot == 0   \* null

\* the score of one spot, in thousandths; the distance is kept to a hundredth
SpotScore(s) ==
    LET dx == s.x - 6
        dy == s.y - 70
        dist == ISqrt(10000 * (dx * dx + dy * dy))
    IN 10 * dist + 6 * s.exitFriction + 8 * s.localCongestion
       + (IF s.backIn THEN 140 ELSE 0)

\* the scan that skips occupied spots only
RECURSIVE SpotScanOccupiedOnly(_, _, _)
SpotScanOccupiedOnly(spotArr, i, acc) ==
    IF i > Len(spotArr) THEN acc
    ELSE LET s == spotArr[i]
             score == Num(SpotScore(s), 1000)
         IN IF s.occupied THEN SpotScanOccupiedOnly(spotArr, i + 1, acc)
            ELSE IF NumLess(score, acc.bestScore)
                 THEN SpotScanOccupiedOnly(spotArr, i + 1, [best |-> i, bestScore |-> score])
                 ELSE SpotScanOccupiedOnly(spotArr, i + 1, acc)

RECURSIVE SpotScan(_, _, _)
SpotScan(spotArr, i, acc) ==
    IF i > Len(spotArr) THEN acc
    ELSE LET s == spotArr[i]
             score == Num(SpotScore(s), 1000)
         IN IF s.occupied \/ s.reserved THEN SpotScan(spotArr, i + 1, acc)
            ELSE IF NumLess(score, acc.bestScore)
                 THEN SpotScan(spotArr, i + 1, [best |-> i, bestScore |-> score])
                 ELSE SpotScan(spotArr, i + 1, acc)

\* the index of the chosen spot in the array, NoSpot for null
chooseParkingSpot(spotArr) ==
    SpotScan(spotArr, 1, [best |-> NoSpot, bestScore |-> Infinity]).best

---------------------------------------------------------------------------
(* Rebalancer *)

StageNames == <<"orderA", "orderB", "pay", "pickup">>

NullMove == [from |-> "null", to |-> "null"]

StageQueueLen(q, name) ==
    CASE name = "orderA" -> Len(q.order.A)
      [] name = "orderB" -> Len(q.order.B)
      [] name = "pay" -> Len(q.pay)
      [] OTHER -> Len(q.pickup)

StageRate(p, name) ==
    CASE name = "orderA" -> p.orderRate
      [] name = "orderB" -> p.orderRate
      [] name = "pay" -> p.payRate
      [] OTHER -> p.pickupRate

\* stages[name]().get()
StageGet(p, name) ==
    CASE name = "orderA" -> p.orderServers.A
      [] name = "orderB" -> p.orderServers.B
      [] name = "pay" -> p.payServers
      [] OTHER -> p.pickupServers

\* stages[name]().set(v)
StageSet(p, name, v) ==
    CASE name = "orderA" -> [p EXCEPT !.orderServers.A = v]
      [] name = "orderB" -> [p EXCEPT !.orderServers.B = v]
      [] name = "pay" -> [p EXCEPT !.payServers = v]
      [] OTHER -> [p EXCEPT !.pickupServers = v]

StageMin == 1

\* util(q, rate, s) = q / (rate * s + 1e-6)
util(q, rate, s) ==
    IF s > 0 THEN Num(q * RateScale * EpsilonInv, rate * s * EpsilonInv + RateScale)
    ELSE Infinity

pressure(sys, name) ==
    util(StageQueueLen(sys.queues, name), StageRate(sys.params, name),
         StageGet(sys.params, name))

\* the sort with (a, b) => a[1] - b[1]: ascending
RECURSIVE InsertAsc(_, _, _)
InsertAsc(sorted, x, sys) ==
    IF sorted = <<>> THEN <<x>>
    ELSE IF NumLess(pressure(sys, x), pressure(sys, Head(sorted)))
         THEN <<x>> \o sorted
         ELSE <<Head(sorted)>> \o InsertAsc(Tail(sorted), x, sys)

\* Array.prototype.sort with (a, b) => b[1] - a[1]: stable, descending; x goes
\* before the first entry whose pressure is lower than its own
RECURSIVE InsertDesc(_, _, _)
InsertDesc(sorted, x, sys) ==
    IF sorted = <<>> THEN <<x>>
    ELSE IF NumLess(pressure(sys, Head(sorted)), pressure(sys, x))
         THEN <<x>> \o sorted
         ELSE <<Head(sorted)>> \o InsertDesc(Tail(sorted), x, sys)

RECURSIVE SortEntries(_, _, _)
SortEntries(sys, i, acc) ==
    IF i > Len(StageNames) THEN acc
    ELSE SortEntries(sys, i + 1, InsertDesc(acc, StageNames[i], sys))

entries(sys) == SortEntries(sys, 1, <<>>)

hottest(sys) == entries(sys)[1]

\* the donor guard with >= in place of >
CanDonateAtFloor(p, name) == StageGet(p, name) >= StageMin

\* the guard of the donor loop
CanDonate(p, name) == StageGet(p, name) > StageMin

\* the donor loop without its skip of the hottest stage
RECURSIVE DonorScanAny(_, _, _)
DonorScanAny(sys, ents, i) ==
    IF i < 1 THEN "null"
    ELSE IF StageGet(sys.params, ents[i]) > StageMin THEN ents[i]
    ELSE DonorScanAny(sys, ents, i - 1)

\* the loop over entries.slice().reverse(): the first stage other than the
\* hottest that can give a server, "null" when the loop ends without one
RECURSIVE DonorScan(_, _, _)
DonorScan(sys, ents, i) ==
    IF i < 1 THEN "null"
    ELSE IF ents[i] = ents[1] THEN DonorScan(sys, ents, i - 1)
    ELSE IF CanDonate(sys.params, ents[i]) THEN ents[i]
    ELSE DonorScan(sys, ents, i - 1)

\* rebalanceServers(sys): the parameters it leaves (it writes them in place)
\* and what it returns
rebalanceServers(sys) ==
    LET ents == entries(sys)
        hot == ents[1]
        donor == DonorScan(sys, ents, Len(ents))
    IN IF donor = "null" THEN [params |-> sys.params, move |-> NullMove]
       ELSE LET p1 == StageSet(sys.params, donor, StageGet(sys.params, donor) - 1)
                p2 == StageSet(p1, hot, StageGet(p1, hot) + 1)
            IN [params |-> p2, move |-> [from |-> donor, to |-> hot]]

---------------------------------------------------------------------------
(* Erlang C helpers *)

RECURSIVE fact(_)
fact(k) == IF k < 2 THEN 1 ELSE k * fact(k - 1)

RECURSIVE ErlangSum(_, _)
ErlangSum(a, k) ==
    IF k < 0 THEN Int2Num(0)
    ELSE NumAdd(ErlangSum(a, k - 1), NumDiv(NumPow(a, k), Int2Num(fact(k))))

\* erlangC without the normalisation by sum + last term
erlangCUnnormalised(lam, mu, s) ==
    IF s <= 0 \/ NumLeq(mu, Int2Num(0)) THEN Int2Num(1)
    ELSE LET rho == NumDiv(lam, NumMul(Int2Num(s), mu))
         IN IF NumLeq(Int2Num(1), rho) THEN Int2Num(1)
            ELSE NumDiv(NumPow(NumDiv(lam, mu), s),
                        NumMul(Int2Num(fact(s)), NumSub(Int2Num(1), rho)))

erlangC(lam, mu, s) ==
    IF s <= 0 \/ NumLeq(mu, Int2Num(0)) THEN Int2Num(1)
    ELSE LET rho == NumDiv(lam, NumMul(Int2Num(s), mu))
         IN IF NumLeq(Int2Num(1), rho) THEN Int2Num(1)
            ELSE LET a == NumDiv(lam, mu)
                     sum == ErlangSum(a, s - 1)
                     top == NumDiv(NumPow(a, s),
                                   NumMul(Int2Num(fact(s)), NumSub(Int2Num(1), rho)))
                 IN NumMul(top, NumDiv(Int2Num(1), NumAdd(sum, top)))

\* expectedWaitMinutes without the check of rho
expectedWaitMinutesNoRhoCheck(lam, mu, s) ==
    IF s <= 0 \/ NumLeq(mu, Int2Num(0)) THEN Infinity
    ELSE NumDiv(erlangC(lam, mu, s), NumSub(NumMul(Int2Num(s), mu), lam))

expectedWaitMinutes(lam, mu, s) ==
    IF s <= 0 \/ NumLeq(mu, Int2Num(0)) THEN Infinity
    ELSE LET C == erlangC(lam, mu, s)
             rho == NumDiv(lam, NumMul(Int2Num(s), mu))
         IN IF NumLeq(Int2Num(1), rho) THEN Infinity
            ELSE NumDiv(C, NumSub(NumMul(Int2Num(s), mu), lam))

---------------------------------------------------------------------------
(* generateSpots *)

\* the i-th spot of the row-major layout, with its three random draws
Spot(i, draw) ==
    LET c == (i - 1) % SpotCols
        r == (i - 1) \div SpotCols
    IN [id |-> i, x |-> 6 + c * 6, y |-> 60 + r * 8,
        occupied |-> draw.occupied,
        reserved |-> (c < 2 /\ r = 0),
        exitFriction |-> (r + 1) * 20 + (IF c > 10 THEN 80 ELSE 20),
        localCongestion |-> draw.localCongestion,
        backIn |-> draw.backIn]

\* the draws of Math.random() the model follows for an inventory: every spot
\* free or every spot occupied at generation, one congestion level, no back-in
SpotDraws ==
    { [i \in 1..NumSpots |-> [occupied |-> b, localCongestion |-> 30, backIn |-> FALSE]] :
        b \in BOOLEAN }

\* the inventories generateSpots() returns under those draws, cut to NumSpots
generateSpots == { [i \in 1..NumSpots |-> Spot(i, d[i])] : d \in SpotDraws }

---------------------------------------------------------------------------
(* useSimulation: the state after construction *)

DefaultParams ==
    [arrivalRate |-> 36, mobileShare |-> 35, divertThresholdMin |-> 7,
     orderRate |-> 8, payRate |-> 13, pickupRate |-> 10,
     orderServers |-> [A |-> 1, B |-> 1], payServers |-> 1, pickupServers |-> 1,
     autoRebalance |-> TRUE]

EmptyQueues ==
    [order |-> [A |-> <<>>, B |-> <<>>], pay |-> <<>>, pickup |-> <<>>, curbside |-> <<>>]

ZeroMetrics ==
    [arrivals |-> 0, served |-> 0, parked |-> 0, avgWait |-> Int2Num(0), maxWip |-> 0,
     history |-> <<>>]

\* the draws of exp() the model follows: half a tick, a tick and a half, and a gap
\* longer than any run of the model
InterArrivals == {52, 156, 20800}

\* exp(ratePerMin): Infinity when the rate is not positive
NeverArrives == 1000000
exp(ratePerHour) == IF ratePerHour <= 0 THEN {NeverArrives} ELSE InterArrivals

\* the draws of rand(4, 10) the model follows: 4 min and 4.08 min
ReadyDraws == {5200, 5304}

\* 1 / rate, in time units (the rates the model uses divide 13000)
ServiceTime(rate) == (TimeScale * RateScale) \div rate

Max(a, b) == IF a < b THEN b ELSE a

\* what a render's step closes over
Render(n, q, sp) == [now |-> n, queues |-> q, spots |-> sp]

NoCall == [fn |-> "none"]

InitEngine ==
    /\ running = FALSE
    /\ now = 0
    /\ params = DefaultParams
    /\ queues = EmptyQueues
    /\ spots \in generateSpots
    /\ metrics = ZeroMetrics
    /\ nextArrival \in exp(DefaultParams.arrivalRate)
    /\ orderClock = [A |-> 0, B |-> 0]
    /\ payClock = 0
    /\ pickupClock = 0
    /\ closure = Render(0, EmptyQueues, spots)
    /\ nextId = 1
    /\ admitted = <<>>
    /\ events = <<>>
    /\ commands = 0

Init == InitEngine /\ call = NoCall /\ ret = NoCall

---------------------------------------------------------------------------
(* step(dt): arrivals *)

\* the car an arrival creates; 0 stands for a field not yet set
NewCar(id, tnow, isMobile) ==
    [id |-> id, arrival |-> tnow, isMobile |-> isMobile, lane |-> "none",
     parkingSpotId |-> 0, readyAt |-> 0,
     progress |-> [order |-> -1, pay |-> -1, pickup |-> -1]]

\* the routing that leaves out the fallback to the lane when no spot is free
RouteNoFallback(w, car, p) ==
    LET best == chooseBestLane([queues |-> w.q, params |-> p], car.isMobile)
        spot == chooseParkingSpot(w.sp)
    IN IF NumLess(Int2Num(p.divertThresholdMin), best.eta)
       THEN IF spot # NoSpot
            THEN [w EXCEPT !.sp[spot].occupied = TRUE,
                           !.q.curbside = Append(@, [car EXCEPT !.parkingSpotId = w.sp[spot].id]),
                           !.m.parked = @ + 1]
            ELSE w
       ELSE [w EXCEPT !.q.order[best.lane] = Append(@, [car EXCEPT !.lane = best.lane])]

\* lines 140-150: where the arrival goes.  w is [q, sp, m]: the arrays, the
\* inventory and the metrics the step works on
Route(w, car, p) ==
    LET best == chooseBestLane([queues |-> w.q, params |-> p], car.isMobile)
        spot == chooseParkingSpot(w.sp)
        toLane == [w EXCEPT !.q.order[best.lane] =
                                Append(@, [car EXCEPT !.lane = best.lane])]
    IN IF NumLess(Int2Num(p.divertThresholdMin), best.eta)
       THEN IF spot # NoSpot
            THEN [w EXCEPT !.sp[spot].occupied = TRUE,
                           !.q.curbside = Append(@, [car EXCEPT !.parkingSpotId = w.sp[spot].id]),
                           !.m.parked = @ + 1]
            ELSE toLane
       ELSE toLane

MobileDraws(p) ==
    IF p.mobileShare <= 0 THEN {FALSE}
    ELSE IF p.mobileShare >= 100 THEN {TRUE} ELSE BOOLEAN

\* the body of the while loop, once: st is the step's working state, gap and
\* isMobile the two random draws of the iteration
Admit(st, gap, isMobile, tnow, p) ==
    LET car == NewCar(st.id, tnow, isMobile)
        w0 == [q |-> st.q, sp |-> st.sp, m |-> [st.m EXCEPT !.arrivals = @ + 1]]
        w1 == Route(w0, car, p)
    IN [st EXCEPT !.q = w1.q, !.sp = w1.sp, !.m = w1.m,
                  !.na = @ + gap,
                  !.id = @ + 1,
                  !.log = Append(@, [car |-> car, params |-> p,
                                     before |-> [q |-> st.q, sp |-> st.sp, m |-> st.m],
                                     after |-> w1])]

\* while (nextArrival.current <= 0) { ... }: every state the loop can end in,
\* over the draws of its iterations; at most n iterations are followed
RECURSIVE ArrivalLoop(_, _, _, _)
ArrivalLoop(st, n, tnow, p) ==
    IF st.na > 0 THEN {st}
    ELSE IF n = 0 \/ st.id > MaxCars THEN {}
    ELSE UNION { ArrivalLoop(Admit(st, gap, isMobile, tnow, p), n - 1, tnow, p) :
                   gap \in exp(p.arrivalRate), isMobile \in MobileDraws(p) }

---------------------------------------------------------------------------
(* step(dt): service, curbside, metrics *)

\* metrics.served++ and the running average, for a wait w
Complete(m, w) ==
    LET served == m.served + 1
    IN [m EXCEPT !.served = served,
                 !.avgWait = NumDiv(NumAdd(NumMul(@, Int2Num(served - 1)), Int2Num(w)),
                                    Int2Num(served))]

\* the order stage that leaves its clock alone while it is idle
OrderServiceNoClamp(st, L, dt, tnow, p) ==
    IF Len(st.q.order[L]) > 0 /\ p.orderServers[L] > 0
    THEN LET clock == st.oc[L] - dt * p.orderServers[L]
             car == [Head(st.q.order[L]) EXCEPT !.progress.order = tnow]
         IN IF clock <= 0
            THEN [st EXCEPT !.q.order[L] = Tail(@), !.q.pay = Append(@, car),
                            !.oc[L] = ServiceTime(p.orderRate)]
            ELSE [st EXCEPT !.oc[L] = clock]
    ELSE st

\* lines 155-165, for one lane
OrderService(st, L, dt, tnow, p) ==
    IF Len(st.q.order[L]) > 0 /\ p.orderServers[L] > 0
    THEN LET clock == st.oc[L] - dt * p.orderServers[L]
             car == [Head(st.q.order[L]) EXCEPT !.progress.order = tnow]
         IN IF clock <= 0
            THEN [st EXCEPT !.q.order[L] = Tail(@), !.q.pay = Append(@, car),
                            !.oc[L] = ServiceTime(p.orderRate)]
            ELSE [st EXCEPT !.oc[L] = clock]
    ELSE [st EXCEPT !.oc[L] = Max(@, ServiceTime(p.orderRate))]

\* the pay stage taking the last entity of its queue in place of the head
PayServiceLifo(st, dt, tnow, p) ==
    IF Len(st.q.pay) > 0 /\ p.payServers > 0
    THEN LET clock == st.pc - dt * p.payServers
             car == [st.q.pay[Len(st.q.pay)] EXCEPT !.progress.pay = tnow]
         IN IF clock <= 0
            THEN [st EXCEPT !.q.pay = SubSeq(@, 1, Len(@) - 1), !.q.pickup = Append(@, car),
                            !.pc = ServiceTime(p.payRate)]
            ELSE [st EXCEPT !.pc = clock]
    ELSE [st EXCEPT !.pc = Max(@, ServiceTime(p.payRate))]

\* lines 168-172
PayService(st, dt, tnow, p) ==
    IF Len(st.q.pay) > 0 /\ p.payServers > 0
    THEN LET clock == st.pc - dt * p.payServers
             car == [Head(st.q.pay) EXCEPT !.progress.pay = tnow]
         IN IF clock <= 0
            THEN [st EXCEPT !.q.pay = Tail(@), !.q.pickup = Append(@, car),
                            !.pc = ServiceTime(p.payRate)]
            ELSE [st EXCEPT !.pc = clock]
    ELSE [st EXCEPT !.pc = Max(@, ServiceTime(p.payRate))]

\* the pickup stage counting its head as served and leaving it in the queue
PickupServiceKeepsHead(st, dt, tnow, p) ==
    IF Len(st.q.pickup) > 0 /\ p.pickupServers > 0
    THEN LET clock == st.kc - dt * p.pickupServers
             car == Head(st.q.pickup)
         IN IF clock <= 0
            THEN [st EXCEPT !.m = Complete(@, tnow - car.arrival),
                            !.kc = ServiceTime(p.pickupRate)]
            ELSE [st EXCEPT !.kc = clock]
    ELSE [st EXCEPT !.kc = Max(@, ServiceTime(p.pickupRate))]

\* lines 175-180
PickupService(st, dt, tnow, p) ==
    IF Len(st.q.pickup) > 0 /\ p.pickupServers > 0
    THEN LET clock == st.kc - dt * p.pickupServers
             car == Head(st.q.pickup)
         IN IF clock <= 0
            THEN [st EXCEPT !.q.pickup = Tail(@), !.m = Complete(@, tnow - car.arrival),
                            !.kc = ServiceTime(p.pickupRate)]
            ELSE [st EXCEPT !.kc = clock]
    ELSE [st EXCEPT !.kc = Max(@, ServiceTime(p.pickupRate))]

RemoveAt(seq, i) == SubSeq(seq, 1, i - 1) \o SubSeq(seq, i + 1, Len(seq))

\* spots.find((x) => x.id === id): the index of the first match, 0 if none
RECURSIVE FindSpot(_, _, _)
FindSpot(spotArr, id, i) ==
    IF i > Len(spotArr) THEN 0
    ELSE IF spotArr[i].id = id THEN i ELSE FindSpot(spotArr, id, i + 1)

\* if (s) s.occupied = false
Release(spotArr, id) ==
    LET i == FindSpot(spotArr, id, 1)
    IN IF i = 0 THEN spotArr ELSE [spotArr EXCEPT ![i].occupied = FALSE]

\* lines 183-187, from index i down: every state the loop can end in, over
\* the draws of rand(4, 10) for the cars that have no ready time yet
RECURSIVE CurbsideLoop(_, _, _)
CurbsideLoop(st, i, tnow) ==
    IF i < 1 THEN {st}
    ELSE LET car0 == st.q.curbside[i]
             durs == IF car0.readyAt = 0 THEN ReadyDraws ELSE {0}
         IN UNION { LET car == IF car0.readyAt = 0
                               THEN [car0 EXCEPT !.readyAt = car0.arrival + dur]
                               ELSE car0
                    IN IF tnow >= car.readyAt
                       THEN CurbsideLoop([st EXCEPT !.sp = Release(@, car.parkingSpotId),
                                                    !.q.curbside = RemoveAt(@, i),
                                                    !.m = Complete(@, tnow - car.arrival)],
                                         i - 1, tnow)
                       ELSE CurbsideLoop([st EXCEPT !.q.curbside[i] = car], i - 1, tnow)
                  : dur \in durs }

Wip(q) == Len(q.order.A) + Len(q.order.B) + Len(q.pay) + Len(q.pickup) + Len(q.curbside)

\* the sample that leaves the curbside queue out of the work in progress
RecordLanesOnly(st, tnow) ==
    LET wip == Len(st.q.order.A) + Len(st.q.order.B) + Len(st.q.pay) + Len(st.q.pickup)
    IN [st EXCEPT !.m.maxWip = Max(@, wip),
                  !.m.history = Append(@, [t |-> tnow, wip |-> wip, wait |-> st.m.avgWait])]

\* lines 189-191
Record(st, tnow) ==
    LET wip == Wip(st.q)
    IN [st EXCEPT !.m.maxWip = Max(@, wip),
                  !.m.history = Append(@, [t |-> tnow, wip |-> wip, wait |-> st.m.avgWait])]

\* what a stage of the step reads and writes
Snap(st) == [q |-> st.q, sp |-> st.sp, m |-> st.m, oc |-> st.oc, pc |-> st.pc, kc |-> st.kc]

\* st1, with the record that the stage took the step's state from st0 to st1
Logged(st0, st1, stage, tnow, p) ==
    [st1 EXCEPT !.ev = Append(@, [stage |-> stage, tnow |-> tnow, params |-> p,
                                  pre |-> Snap(st0), post |-> Snap(st1)])]

\* lines 154-180: the four stages, in the order of the code
Service(st, dt, tnow, p) ==
    LET s1 == Logged(st, OrderService(st, "A", dt, tnow, p), "orderA", tnow, p)
        s2 == Logged(s1, OrderService(s1, "B", dt, tnow, p), "orderB", tnow, p)
        s3 == Logged(s2, PayService(s2, dt, tnow, p), "pay", tnow, p)
    IN Logged(s3, PickupService(s3, dt, tnow, p), "pickup", tnow, p)

\* the body of step(dt) from line 136 to line 191, on the values the
\* interval's closure holds: every state it can end in
StepBody(st0, dt, tnow, p) ==
    UNION { { Record(Logged(s5, s6, "curbside", tnow, p), tnow) :
                s6 \in CurbsideLoop(s5, Len(s5.q.curbside), tnow) } :
            s5 \in { Service(s1, dt, tnow, p) :
                      s1 \in ArrivalLoop([st0 EXCEPT !.na = @ - dt],
                                         MaxArrivalsPerStep, tnow, p) } }

\* a trigger that does not look at the autoRebalance flag
RebalancedUnconditionally(q, p, coin) ==
    IF coin THEN rebalanceServers([queues |-> q, params |-> p]).params
    ELSE p

\* line 193: Math.random() < 0.05 is the coin
Rebalanced(q, p, coin) ==
    IF p.autoRebalance /\ coin THEN rebalanceServers([queues |-> q, params |-> p]).params
    ELSE p

\* an interval that survives the cleanup of the effect
IntervalSurvivesPause == TRUE

\* line 126: the interval exists only while running
IntervalLive == running

\* the interval fires: step(minutesPerTick), with the closure's now, queues
\* and spots.  setQueues({...queues}) and setSpots([...spots]) hand the
\* closure's own arrays to the next render.  The clock stays below horizon.
StepUntil(horizon) ==
    /\ IntervalLive
    /\ now < horizon
    /\ \E st \in StepBody([q |-> closure.queues, sp |-> closure.spots, m |-> metrics,
                           na |-> nextArrival, oc |-> orderClock, pc |-> payClock,
                           kc |-> pickupClock, id |-> nextId, log |-> <<>>,
                           ev |-> <<>>],
                          minutesPerTick, closure.now, params),
          coin \in BOOLEAN :
            /\ now' = now + minutesPerTick
            /\ queues' = st.q
            /\ spots' = st.sp
            /\ closure' = [closure EXCEPT !.queues = st.q, !.spots = st.sp]
            /\ metrics' = st.m
            /\ nextArrival' = st.na
            /\ orderClock' = st.oc
            /\ payClock' = st.pc
            /\ pickupClock' = st.kc
            /\ nextId' = st.id
            /\ admitted' = st.log
            /\ events' = st.ev
            /\ params' = Rebalanced(st.q, params, coin)
    /\ UNCHANGED <<running, commands, call, ret>>

Step == StepUntil(MaxTicks * minutesPerTick)

---------------------------------------------------------------------------
(* The commands of the hook *)

\* setRunning(true): the effect starts the interval with this render's step.
\* budget caps the number of commands of a run.
StartWithin(budget) ==
    /\ commands < budget
    /\ ~running
    /\ running' = TRUE
    /\ closure' = Render(now, queues, spots)
    /\ commands' = commands + 1
    /\ UNCHANGED <<now, params, queues, spots, metrics, nextArrival, orderClock,
                   payClock, pickupClock, nextId, admitted, events, call, ret>>

Start == StartWithin(MaxCommands)

\* setRunning(false): the effect's cleanup clears the interval
Pause ==
    /\ commands < MaxCommands
    /\ running
    /\ running' = FALSE
    /\ closure' = Render(now, queues, spots)
    /\ commands' = commands + 1
    /\ UNCHANGED <<now, params, queues, spots, metrics, nextArrival, orderClock,
                   payClock, pickupClock, nextId, admitted, events, call, ret>>

\* reset(): new state values and refs; running and params are not touched,
\* so the effect does not run again and a live interval keeps its closure
ResetWithin(budget) ==
    /\ commands < budget
    /\ queues' = EmptyQueues
    /\ spots' \in generateSpots
    /\ metrics' = ZeroMetrics
    /\ orderClock' = [A |-> 0, B |-> 0]
    /\ payClock' = 0
    /\ pickupClock' = 0
    /\ nextArrival' \in exp(params.arrivalRate)
    /\ now' = 0
    /\ closure' = IF running THEN closure ELSE Render(0, EmptyQueues, spots')
    /\ commands' = commands + 1
    /\ UNCHANGED <<running, params, nextId, admitted, events, call, ret>>

Reset == ResetWithin(MaxCommands)

\* the parameter updates of the controls the model follows
ParamUpdates ==
    { [field |-> "divertThresholdMin", value |-> 2],
      [field |-> "orderRate", value |-> 2],
      [field |-> "payServers", value |-> 2],
      [field |-> "autoRebalance", value |-> FALSE] }

ApplyUpdate(p, u) ==
    CASE u.field = "divertThresholdMin" -> [p EXCEPT !.divertThresholdMin = u.value]
      [] u.field = "orderRate" -> [p EXCEPT !.orderRate = u.value]
      [] u.field = "payServers" -> [p EXCEPT !.payServers = u.value]
      [] OTHER -> [p EXCEPT !.autoRebalance = u.value]

\* setParams(p => ({...p, field: value})): a new params object, so the effect
\* runs again and a live interval is replaced by one with this render's step
SetParamsWithin(budget) ==
    /\ commands < budget
    /\ \E u \in ParamUpdates : params' = ApplyUpdate(params, u)
    /\ closure' = Render(now, queues, spots)
    /\ commands' = commands + 1
    /\ UNCHANGED <<running, now, queues, spots, metrics, nextArrival, orderClock,
                   payClock, pickupClock, nextId, admitted, events, call, ret>>

SetParams == SetParamsWithin(MaxCommands)

Next == Start \/ Pause \/ Reset \/ SetParams \/ Step

Spec == Init /\ [][Next]_vars

(* The engine with a user who starts it, retunes it and resets it while it  *)
(* runs, and never pauses it: fewer behaviours than Spec, followed further. *)

MaxLiveCommands == 5

LiveStart == StartWithin(MaxLiveCommands)

LiveReset == running /\ ResetWithin(MaxLiveCommands)

\* this user changes the divert threshold and switches the automatic
\* rebalance off, each once
LiveSetParams ==
    /\ running
    /\ SetParamsWithin(MaxLiveCommands)
    /\ params' # params
    /\ params'.orderRate = params.orderRate
    /\ params'.payServers = params.payServers

NextLive == LiveStart \/ LiveReset \/ LiveSetParams \/ Step

SpecLive == Init /\ [][NextLive]_vars

(* The engine left running: the user has lowered the divert threshold to    *)
(* 2 min and the pay rate to 0.4 per minute, pressed Start, and touches     *)
(* nothing afterwards.  Only the interval acts, MaxRunTicks times.          *)

MaxRunTicks == 140

RunParams == [DefaultParams EXCEPT !.divertThresholdMin = 2, !.payRate = 4]

InitRun ==
    /\ running = TRUE
    /\ now = 0
    /\ params = RunParams
    /\ queues = EmptyQueues
    /\ spots \in generateSpots
    /\ metrics = ZeroMetrics
    /\ nextArrival \in exp(RunParams.arrivalRate)
    /\ orderClock = [A |-> 0, B |-> 0]
    /\ payClock = 0
    /\ pickupClock = 0
    /\ closure = Render(0, EmptyQueues, spots)
    /\ nextId = 1
    /\ admitted = <<>>
    /\ events = <<>>
    /\ commands = MaxCommands
    /\ call = NoCall
    /\ ret = NoCall

RunHorizon == MaxRunTicks * minutesPerTick

\* the draws of exp() followed here: once uid() has handed out its last
\* identity, the next arrival falls after the horizon
RunStep ==
    /\ StepUntil(RunHorizon)
    /\ nextId' > MaxCars => nextArrival' > RunHorizon - now'

NextRun == RunStep

SpecRun == InitRun /\ [][NextRun]_vars

(* The same run with a user who switches the automatic rebalance off once, *)
(* at any moment at which a car is parked: the effect re-creates the       *)
(* interval with that render's step.                                       *)

RunRetune ==
    /\ running
    /\ queues.curbside # <<>>
    /\ SetParamsWithin(MaxCommands + 1)
    /\ params' = [params EXCEPT !.autoRebalance = FALSE]

NextRetune == RunStep \/ RunRetune

SpecRetune == InitRun /\ [][NextRetune]_vars

\* what every firing of the interval does to the clock (line 132)
RunTick == now < RunHorizon /\ now' = now + minutesPerTick

\* setInterval keeps firing while the engine runs: the clock keeps advancing
SpecRunFair == SpecRun /\ WF_now(RunTick)

---------------------------------------------------------------------------
(* Specifications of the pure functions: Init draws the arguments, the one *)
(* action makes the call.  The engine's other variables stay as built.     *)

Idle ==
    /\ running = FALSE
    /\ now = 0
    /\ metrics = ZeroMetrics
    /\ nextArrival = 0
    /\ orderClock = [A |-> 0, B |-> 0]
    /\ payClock = 0
    /\ pickupClock = 0
    /\ closure = Render(0, EmptyQueues, <<>>)
    /\ nextId = 1
    /\ admitted = <<>>
    /\ events = <<>>
    /\ commands = 0

IdleUnchanged ==
    UNCHANGED <<running, now, metrics, nextArrival, orderClock, payClock, pickupClock,
                closure, nextId, admitted, events, commands>>

\* a queue of k cars
Cars(k) == [i \in 1..k |-> NewCar(i, 0, FALSE)]

QueuesOfLen(a, b, c, d) ==
    [order |-> [A |-> Cars(a), B |-> Cars(b)], pay |-> Cars(c), pickup |-> Cars(d),
     curbside |-> <<>>]

ServerTotal(p) == p.orderServers.A + p.orderServers.B + p.payServers + p.pickupServers

(* rebalanceServers: server counts 1..MaxServers, queue lengths 0..MaxQueueLen *)

InitRebalance ==
    /\ Idle
    /\ spots = <<>>
    /\ \E a, b, c, d \in 1..MaxServers, orate \in {8, 20} :
         params = [DefaultParams EXCEPT !.orderServers = [A |-> a, B |-> b],
                                        !.payServers = c, !.pickupServers = d,
                                        !.orderRate = orate]
    /\ \E a, b, c, d \in 0..MaxQueueLen : queues = QueuesOfLen(a, b, c, d)
    /\ call = [fn |-> "rebalanceServers", total |-> ServerTotal(params)]
    /\ ret = NoCall

CallRebalance ==
    /\ call.fn = "rebalanceServers"
    /\ LET r == rebalanceServers([queues |-> queues, params |-> params])
       IN /\ params' = r.params
          /\ ret' = [fn |-> "rebalanceServers", move |-> r.move, before |-> params]
    /\ UNCHANGED <<queues, spots, call>>
    /\ IdleUnchanged

SpecRebalance == InitRebalance /\ [][CallRebalance]_vars

(* chooseBestLane: rates and server counts that may be zero or negative *)

InitLane ==
    /\ Idle
    /\ spots = <<>>
    /\ \E a, b \in -1..MaxServers, c \in {0, 1}, orate \in {-8, 0, 8}, prate \in {0, 13} :
         params = [DefaultParams EXCEPT !.orderServers = [A |-> a, B |-> b],
                                        !.payServers = c,
                                        !.orderRate = orate, !.payRate = prate]
    /\ \E a, b, c, d \in 0..MaxQueueLen : queues = QueuesOfLen(a, b, c, d)
    /\ \E m \in BOOLEAN : call = [fn |-> "chooseBestLane", isMobile |-> m]
    /\ ret = NoCall

CallChooseBestLane ==
    /\ call.fn = "chooseBestLane"
    /\ ret = NoCall
    /\ LET r == chooseBestLane([queues |-> queues, params |-> params], call.isMobile)
       IN ret' = [fn |-> "chooseBestLane", lane |-> r.lane, eta |-> r.eta]
    /\ UNCHANGED <<params, queues, spots, call>>
    /\ IdleUnchanged

SpecLane == InitLane /\ [][CallChooseBestLane]_vars

(* chooseParkingSpot: every setting of the flags of the first NumSpots spots *)

SpotFlags ==
    [occupied : BOOLEAN, reserved : BOOLEAN, localCongestion : {0, 59}, backIn : BOOLEAN]

AnySpot(i, f) == [Spot(i, f) EXCEPT !.reserved = f.reserved]

InitSpot ==
    /\ Idle
    /\ params = DefaultParams
    /\ queues = EmptyQueues
    /\ \E f \in [1..NumSpots -> SpotFlags] : spots = [i \in 1..NumSpots |-> AnySpot(i, f[i])]
    /\ call = [fn |-> "chooseParkingSpot", spots |-> spots]
    /\ ret = NoCall

CallChooseParkingSpot ==
    /\ call.fn = "chooseParkingSpot"
    /\ ret = NoCall
    /\ ret' = [fn |-> "chooseParkingSpot", best |-> chooseParkingSpot(spots)]
    /\ UNCHANGED <<params, queues, spots, call>>
    /\ IdleUnchanged

SpecSpot == InitSpot /\ [][CallChooseParkingSpot]_vars

(* erlangC and expectedWaitMinutes *)

ErlangLambdas == { Num(k, 2) : k \in -2..5 } \cup { Int2Num(10) }
ErlangMus == { Int2Num(-1), Int2Num(0), Num(1, 2), Int2Num(1), Int2Num(2) }

InitErlang ==
    /\ Idle
    /\ params = DefaultParams
    /\ queues = EmptyQueues
    /\ spots = <<>>
    /\ \E lam \in ErlangLambdas, mu \in ErlangMus, s \in -1..MaxErlangS :
         call = [fn |-> "erlang", lam |-> lam, mu |-> mu, s |-> s]
    /\ ret = NoCall

CallErlang ==
    /\ call.fn = "erlang"
    /\ ret = NoCall
    /\ ret' = [fn |-> "erlang", C |-> erlangC(call.lam, call.mu, call.s),
               W |-> expectedWaitMinutes(call.lam, call.mu, call.s)]
    /\ UNCHANGED <<params, queues, spots, call>>
    /\ IdleUnchanged

SpecErlang == InitErlang /\ [][CallErlang]_vars

---------------------------------------------------------------------------
(* Properties of the engine (Spec) *)

SeqToSet(seq) == { seq[i] : i \in 1..Len(seq) }

\* the cars in the five queues
Queued(q) ==
    SeqToSet(q.order.A) \cup SeqToSet(q.order.B) \cup SeqToSet(q.pay)
    \cup SeqToSet(q.pickup) \cup SeqToSet(q.curbside)

\* C1: in every state the hook can be in, and so at the end of every tick,
\* metrics.arrivals equals metrics.served plus the number of entities in the
\* five queues, ticks that follow a reset included.
C1_Conservation == metrics.arrivals = metrics.served + Wip(queues)

\* C3: reset transitions the engine to the stopped state, whether it was
\* running or stopped, so that no step executes until the next start.
C3_ResetStops == [][Reset => ~running']_vars

\* what reset clears
AllCleared ==
    /\ queues = EmptyQueues
    /\ metrics = ZeroMetrics
    /\ orderClock = [A |-> 0, B |-> 0]
    /\ payClock = 0
    /\ pickupClock = 0
    /\ now = 0
    /\ spots \in generateSpots

\* uid() numbers the cars in order of admission and metrics.arrivals counts
\* those admitted since the last reset: an older car has a smaller id
AdmittedBeforeReset(car) == car.id < nextId - metrics.arrivals

\* C4: reset clears all state (queues, metrics, history, stage clocks, clock,
\* a regenerated inventory), and no entity admitted before a reset is in any
\* queue, holds any spot or is counted as served at any later tick.
C4_ResetClears ==
    [][/\ Reset => AllCleared'
       /\ \A car \in Queued(queues') : ~AdmittedBeforeReset(car)'
       /\ metrics'.served <= metrics'.arrivals]_vars

\* the spot an arrival is given: chosen among those neither occupied nor reserved
EligibleSpots(spotArr) ==
    { i \in 1..Len(spotArr) : ~spotArr[i].occupied /\ ~spotArr[i].reserved }

\* C6, for one arrival e of the last step: it went to curbside, with its spot
\* marked occupied and parked incremented, iff the eta of the chosen lane
\* exceeded the threshold and a free unreserved spot existed; otherwise to the
\* tail of the order queue of the lane chooseBestLane returned; in both cases
\* to exactly one queue.
PlacedAsSpecified(e) ==
    LET best == chooseBestLane([queues |-> e.before.q, params |-> e.params], e.car.isMobile)
        over == NumLess(Int2Num(e.params.divertThresholdMin), best.eta)
        free == EligibleSpots(e.before.sp)
        inCurb == { i \in 1..Len(e.after.q.curbside) : e.after.q.curbside[i].id = e.car.id }
        inLane(L) == { i \in 1..Len(e.after.q.order[L]) : e.after.q.order[L][i].id = e.car.id }
    IN /\ Wip(e.after.q) = Wip(e.before.q) + 1
       /\ e.after.q.pay = e.before.q.pay
       /\ e.after.q.pickup = e.before.q.pickup
       /\ e.after.m.arrivals = e.before.m.arrivals + 1
       /\ IF over /\ free # {}
          THEN /\ inCurb = {Len(e.before.q.curbside) + 1}
               /\ e.after.q.order = e.before.q.order
               /\ e.after.m.parked = e.before.m.parked + 1
               /\ \E i \in free :
                    /\ e.after.sp = [e.before.sp EXCEPT ![i].occupied = TRUE]
                    /\ e.after.q.curbside[Len(e.after.q.curbside)].parkingSpotId
                         = e.before.sp[i].id
          ELSE /\ inLane(best.lane) = {Len(e.before.q.order[best.lane]) + 1}
               /\ e.after.q.curbside = e.before.q.curbside
               /\ e.after.m.parked = e.before.m.parked
               /\ e.after.sp = e.before.sp
               /\ \A L \in {"A", "B"} \ {best.lane} : e.after.q.order[L] = e.before.q.order[L]

\* C6: every arrival admitted in a step is placed, within that step, in
\* exactly one queue: in curbside iff the chosen lane's eta exceeds the divert
\* threshold and a free unreserved spot exists, else at the tail of the order
\* queue of the chosen lane; it is never blocked or dropped.
C6_ArrivalPlaced == \A k \in 1..Len(admitted) : PlacedAsSpecified(admitted[k])

\* an arrival whose eta exceeded the threshold
OverThreshold(e) ==
    NumLess(Int2Num(e.params.divertThresholdMin),
            chooseBestLane([queues |-> e.before.q, params |-> e.params], e.car.isMobile).eta)

\* the last step diverted an arrival to curbside
DivertReached ==
    \E k \in 1..Len(admitted) :
        /\ OverThreshold(admitted[k])
        /\ Len(admitted[k].after.q.curbside) = Len(admitted[k].before.q.curbside) + 1

\* C6 witness: an arrival over the threshold found no free unreserved spot and
\* joined the tail of the lane chosen for it
C6_Witness ==
    \E k \in 1..Len(admitted) :
        LET e == admitted[k]
            L == chooseBestLane([queues |-> e.before.q, params |-> e.params],
                                e.car.isMobile).lane
        IN /\ OverThreshold(e)
           /\ EligibleSpots(e.before.sp) = {}
           /\ Len(e.after.q.order[L]) = Len(e.before.q.order[L]) + 1
           /\ e.after.q.order[L][Len(e.after.q.order[L])].id = e.car.id

---------------------------------------------------------------------------
(* Properties of rebalanceServers (SpecRebalance) *)

StageSet4 == { StageNames[i] : i \in 1..Len(StageNames) }

\* C2: with every count at least 1, a call that returns (from, to) leaves the
\* sum of the four counts unchanged, takes exactly 1 from the donor, gives
\* exactly 1 to the recipient and leaves every count at least 1; after any
\* number of calls the total is the initial total and no stage is below 1.
C2_RebalanceConserves ==
    /\ ServerTotal(params) = call.total
    /\ \A n \in StageSet4 : StageGet(params, n) >= 1
    /\ (ret.fn = "rebalanceServers" /\ ret.move # NullMove) =>
         /\ ret.move.from \in StageSet4
         /\ ret.move.to \in StageSet4 \ {ret.move.from}
         /\ StageGet(params, ret.move.from) = StageGet(ret.before, ret.move.from) - 1
         /\ StageGet(params, ret.move.to) = StageGet(ret.before, ret.move.to) + 1
         /\ \A n \in StageSet4 \ {ret.move.from, ret.move.to} :
              StageGet(params, n) = StageGet(ret.before, n)
         /\ ServerTotal(params) = ServerTotal(ret.before)

\* C2 witness: a call moved a server away from a stage that had two
C2_Witness ==
    /\ ret.fn = "rebalanceServers"
    /\ ret.move # NullMove
    /\ StageGet(ret.before, ret.move.from) = 2
    /\ StageGet(params, ret.move.from) = 1

\* the target: the stage of greatest pressure, the first such in the order
\* orderA, orderB, pay, pickup
TargetOf(sys) ==
    StageNames[CHOOSE t \in 1..Len(StageNames) :
        /\ \A n \in 1..Len(StageNames) :
             ~NumLess(pressure(sys, StageNames[t]), pressure(sys, StageNames[n]))
        /\ \A n \in 1..(t - 1) :
             NumLess(pressure(sys, StageNames[n]), pressure(sys, StageNames[t]))]

\* C8: the call returns null, and then leaves the four counts unchanged,
\* exactly when every stage other than the target has exactly 1 server.
C8_NullIffOthersAtFloor ==
    ret.fn = "rebalanceServers" =>
        LET target == TargetOf([queues |-> queues, params |-> ret.before])
        IN /\ (ret.move = NullMove) <=>
                (\A n \in StageSet4 \ {target} : StageGet(ret.before, n) = 1)
           /\ ret.move = NullMove => params = ret.before

\* C8 witness: null was returned although the target itself had servers to spare
C8_Witness ==
    /\ ret.fn = "rebalanceServers"
    /\ ret.move = NullMove
    /\ StageGet(ret.before, TargetOf([queues |-> queues, params |-> ret.before])) > 1

---------------------------------------------------------------------------
(* Properties of predictedQueueTime and chooseBestLane (SpecLane) *)

\* orderDelay * mobileFactor + payDelay + pickupDelay for lane L
TotalDelay(L) ==
    NumAdd(NumAdd(NumMul(predictedQueueTime(Len(queues.order[L]), params.orderRate,
                                            params.orderServers[L]),
                         IF call.isMobile THEN Num(11, 20) ELSE Int2Num(1)),
                  predictedQueueTime(Len(queues.pay), params.payRate, params.payServers)),
           predictedQueueTime(Len(queues.pickup), params.pickupRate, params.pickupServers))

ValidParams(p) ==
    /\ p.orderRate > 0 /\ p.payRate > 0 /\ p.pickupRate > 0
    /\ p.orderServers.A >= 1 /\ p.orderServers.B >= 1
    /\ p.payServers >= 1 /\ p.pickupServers >= 1

\* C5: chooseBestLane returns the lane of the smaller total, lane A when the
\* totals are equal (both +Infinity included), and as eta the total of the
\* lane it returns; for an empty system with equal server counts the totals
\* are equal, lane A is returned, and the totals are finite (rates positive
\* and server counts at least 1, as the hook keeps them).
C5_BestLane ==
    ret.fn = "chooseBestLane" =>
        /\ NumLess(TotalDelay("B"), TotalDelay("A")) => ret.lane = "B"
        /\ ~NumLess(TotalDelay("B"), TotalDelay("A")) => ret.lane = "A"
        /\ TotalDelay("A") = TotalDelay("B") => ret.lane = "A"
        /\ ret.eta = TotalDelay(ret.lane)
        /\ (Wip(queues) = 0 /\ params.orderServers.A = params.orderServers.B) =>
             /\ TotalDelay("A") = TotalDelay("B")
             /\ ret.lane = "A"
             /\ ValidParams(params) => IsFinite(ret.eta)

\* C5 witness: a tie between lanes of different queue lengths went to lane A
C5_Witness ==
    /\ ret.fn = "chooseBestLane"
    /\ Len(queues.order.A) # Len(queues.order.B)
    /\ IsFinite(TotalDelay("A"))
    /\ TotalDelay("A") = TotalDelay("B")
    /\ ret.lane = "A"

NonNegOrInfinite(x) == x = Infinity \/ (IsFinite(x) /\ x.n >= 0)

\* the four uses of predictedQueueTime: queue length, rate, server count
StageInputs ==
    { <<Len(queues.order.A), params.orderRate, params.orderServers.A>>,
      <<Len(queues.order.B), params.orderRate, params.orderServers.B>>,
      <<Len(queues.pay), params.payRate, params.payServers>>,
      <<Len(queues.pickup), params.pickupRate, params.pickupServers>> }

\* C9: for every queue length >= 0 and every rate and server count, zero and
\* negative ones included, the predicted delay of a stage and the eta of
\* chooseBestLane are +Infinity or a non-negative finite number; the delay is
\* +Infinity whenever the rate or the server count is not positive; a lane of
\* infinite total is never chosen when the other lane's total is finite.
C9_DelaySentinel ==
    /\ \A x \in StageInputs :
         /\ NonNegOrInfinite(predictedQueueTime(x[1], x[2], x[3]))
         /\ (x[2] <= 0 \/ x[3] <= 0) => predictedQueueTime(x[1], x[2], x[3]) = Infinity
    /\ ret.fn = "chooseBestLane" =>
         /\ NonNegOrInfinite(ret.eta)
         /\ \A L \in {"A", "B"} : NonNegOrInfinite(TotalDelay(L))
         /\ (\E L \in {"A", "B"} : IsFinite(TotalDelay(L))) => IsFinite(TotalDelay(ret.lane))

\* C9 witness: lane A has no server, lane B is finite and was chosen
C9_Witness ==
    /\ ret.fn = "chooseBestLane"
    /\ params.orderServers.A <= 0
    /\ TotalDelay("A") = Infinity
    /\ IsFinite(TotalDelay("B"))
    /\ ret.lane = "B"

---------------------------------------------------------------------------
(* Properties of chooseParkingSpot (SpecSpot) *)

\* C7: chooseParkingSpot never returns an occupied or a reserved spot, returns
\* null iff every spot is occupied or reserved, and changes no spot.
C7_SpotExclusion ==
    ret.fn = "chooseParkingSpot" =>
        /\ ret.best # NoSpot => ret.best \in EligibleSpots(call.spots)
        /\ (ret.best = NoSpot) <=> (EligibleSpots(call.spots) = {})
        /\ spots = call.spots

\* C7 witness: a spot was returned from an inventory that also holds a spot
\* that is reserved but free and one that is occupied but not reserved
C7_Witness ==
    /\ ret.fn = "chooseParkingSpot"
    /\ ret.best # NoSpot
    /\ \E i, j \in 1..Len(spots) :
         /\ spots[i].reserved /\ ~spots[i].occupied
         /\ spots[j].occupied /\ ~spots[j].reserved

---------------------------------------------------------------------------
(* Properties of erlangC and expectedWaitMinutes (SpecErlang) *)

ErlangCapacity == NumMul(Int2Num(call.s), call.mu)

ErlangDegenerate == call.s <= 0 \/ NumLeq(call.mu, Int2Num(0))

ErlangStable ==
    ~ErlangDegenerate /\ NumLess(NumDiv(call.lam, ErlangCapacity), Int2Num(1))

---------------------------------------------------------------------------
(* Properties of the stages of a step (Spec) *)

\* a step took place: line 132 is the only place that advances the clock
Ticked == now' = now + minutesPerTick

Ids(seq) == [i \in 1..Len(seq) |-> seq[i].id]

\* the identities in the queue of a stage, head first
StageIds(q, stage) ==
    Ids(CASE stage = "orderA" -> q.order.A
          [] stage = "orderB" -> q.order.B
          [] stage = "pay" -> q.pay
          [] OTHER -> q.pickup)

\* where the entity a stage releases goes; pickup releases it as served
NextStage(stage) ==
    CASE stage \in {"orderA", "orderB"} -> "pay"
      [] stage = "pay" -> "pickup"
      [] OTHER -> "served"

\* a part of the step left the queue of its own stage as it was or without
\* its head, put that head at the tail of the next stage, and left every
\* other stage queue as it was
FifoEvent(e) ==
    LET own == StageIds(e.pre.q, e.stage)
        own2 == StageIds(e.post.q, e.stage)
    IN IF e.stage = "curbside"
       THEN \A n \in StageSet4 : StageIds(e.post.q, n) = StageIds(e.pre.q, n)
       ELSE /\ own2 = own \/ (own # <<>> /\ own2 = Tail(own))
            /\ \A n \in StageSet4 \ {e.stage} :
                 StageIds(e.post.q, n) =
                     IF n = NextStage(e.stage) /\ own2 # own
                     THEN Append(StageIds(e.pre.q, n), Head(own))
                     ELSE StageIds(e.pre.q, n)

\* an admission left every stage queue as it was or with the arrival at its tail
FifoAdmission(e) ==
    \A n \in StageSet4 :
        \/ StageIds(e.after.q, n) = StageIds(e.before.q, n)
        \/ /\ n \in {"orderA", "orderB"}
           /\ StageIds(e.after.q, n) = Append(StageIds(e.before.q, n), e.car.id)

\* the parts of a step work one after the other on the same queues: what one
\* leaves is what the next one finds
Chained(adm, evs, q0, q1) ==
    /\ \A k \in 1..(Len(adm) - 1) : adm[k].after.q = adm[k + 1].before.q
    /\ \A k \in 1..(Len(evs) - 1) : evs[k].post.q = evs[k + 1].pre.q
    /\ evs # <<>>
    /\ q0 = IF adm = <<>> THEN evs[1].pre.q ELSE adm[1].before.q
    /\ adm # <<>> => adm[Len(adm)].after.q = evs[1].pre.q
    /\ q1 = evs[Len(evs)].post.q

\* C11: order-A, order-B, pay and pickup are FIFO over any sequence of steps:
\* a step takes entities from a queue only at its head, puts them only at the
\* tail (of the next stage, or of a lane on arrival) and reorders no queue, so
\* entities leave each stage in the order in which they were appended to it.
C11_Fifo ==
    [][Ticked => /\ Chained(admitted', events', closure.queues, queues')
                 /\ closure'.queues = queues'
                 /\ \A k \in 1..Len(admitted') : FifoAdmission(admitted'[k])
                 /\ \A k \in 1..Len(events') : FifoEvent(events'[k])]_vars

\* C11 witness: a stage holding two entities released its head and kept the other
C11_Witness ==
    \E k \in 1..Len(events) :
        LET own == StageIds(events[k].pre.q, events[k].stage)
        IN /\ events[k].stage \in StageSet4
           /\ Len(own) >= 2
           /\ StageIds(events[k].post.q, events[k].stage) = Tail(own)

\* the identities in the five queues, one after the other
AllIds(q) ==
    Ids(q.order.A) \o Ids(q.order.B) \o Ids(q.pay) \o Ids(q.pickup) \o Ids(q.curbside)

IdSet(q) == { AllIds(q)[i] : i \in 1..Len(AllIds(q)) }

\* no identity occurs twice, in one queue or in two
Unique(q) == \A i, j \in 1..Len(AllIds(q)) : i # j => AllIds(q)[i] # AllIds(q)[j]

\* the entities a part of the step took out for good: the head pickup
\* released, the cars the curbside loop removed
Departed(e) ==
    CASE e.stage = "pickup" ->
           { e.pre.q.pickup[i].id : i \in 1..Len(e.pre.q.pickup) }
             \ { e.post.q.pickup[i].id : i \in 1..Len(e.post.q.pickup) }
      [] e.stage = "curbside" ->
           { e.pre.q.curbside[i].id : i \in 1..Len(e.pre.q.curbside) }
             \ { e.post.q.curbside[i].id : i \in 1..Len(e.post.q.curbside) }
      [] OTHER -> {}

\* the entities that left the queues: admitted, and in no array any more
Gone == (1..(nextId - 1)) \ (IdSet(queues) \cup IdSet(closure.queues))

\* C12: in every reachable state each entity is in at most one of the five
\* queues and at most once in it; an entity counted as served is in none of
\* them: the part of the step that counts it takes it out, and an entity that
\* has left the queues never comes back.
C12_OneQueue ==
    [][/\ Unique(queues') /\ Unique(closure'.queues)
       /\ Gone \subseteq Gone'
       /\ Ticked => \A k \in 1..Len(events') :
                      LET e == events'[k]
                      IN /\ e.post.m.served = e.pre.m.served + Cardinality(Departed(e))
                         /\ Departed(e) \cap IdSet(queues') = {}]_vars

\* C12 witness: an entity has been served in the last step while two others
\* wait in two different queues
C12_Witness ==
    /\ \E k \in 1..Len(events) : Departed(events[k]) # {}
    /\ Cardinality(IdSet(queues)) >= 2
    /\ Cardinality({ n \in StageSet4 : StageIds(queues, n) # <<>> }) >= 2
    /\ \A k \in 1..Len(events) : Departed(events[k]) \cap IdSet(queues) = {}

---------------------------------------------------------------------------
(* Properties of the running average (Spec, SpecLive) *)

\* the sum of tnow - arrival over the cars of seq whose identity is in ids
RECURSIVE WaitSum(_, _, _, _)
WaitSum(seq, ids, tnow, i) ==
    IF i > Len(seq) THEN 0
    ELSE (IF seq[i].id \in ids THEN tnow - seq[i].arrival ELSE 0)
         + WaitSum(seq, ids, tnow, i + 1)

\* a part of the step leaves avgWait * served raised by the waits of the
\* entities it served, and by oldAvg + (sample - oldAvg)/count for one entity
AvgEvent(e) ==
    LET n0 == e.pre.m.served
        n1 == e.post.m.served
        sum == WaitSum(e.pre.q.pickup \o e.pre.q.curbside, Departed(e), e.tnow, 1)
    IN /\ n1 = n0 + Cardinality(Departed(e))
       /\ NumMul(e.post.m.avgWait, Int2Num(n1)) =
              NumAdd(NumMul(e.pre.m.avgWait, Int2Num(n0)), Int2Num(sum))
       /\ Cardinality(Departed(e)) = 1 =>
              e.post.m.avgWait =
                  NumAdd(e.pre.m.avgWait,
                         NumDiv(NumSub(Int2Num(sum), e.pre.m.avgWait), Int2Num(n1)))

\* C13: after every tick metrics.avgWait is the mean of completion time minus
\* arrival time over the entities served since the last reset, through pickup
\* or through curbside: it is 0 when served is 0, every part of a step raises
\* avgWait * served by the waits of the entities it serves, as the update
\* oldAvg + (sample - oldAvg)/count does, and avgWait is never negative.
C13_AvgWait ==
    [][/\ metrics'.served = 0 => metrics'.avgWait = Int2Num(0)
       /\ IsFinite(metrics'.avgWait) /\ metrics'.avgWait.n >= 0
       /\ Ticked => /\ events'[1].pre.m.avgWait = metrics.avgWait
                    /\ events'[1].pre.m.served = metrics.served
                    /\ \A k \in 1..(Len(events') - 1) : events'[k].post.m = events'[k + 1].pre.m
                    /\ metrics'.avgWait = events'[Len(events')].post.m.avgWait
                    /\ metrics'.served = events'[Len(events')].post.m.served
                    /\ \A k \in 1..Len(events') : AvgEvent(events'[k])]_vars

\* the mean is kept as specified: C13 without its bound
AvgWaitIsMean ==
    [][/\ metrics'.served = 0 => metrics'.avgWait = Int2Num(0)
       /\ Ticked => /\ events'[1].pre.m.avgWait = metrics.avgWait
                    /\ events'[1].pre.m.served = metrics.served
                    /\ \A k \in 1..(Len(events') - 1) : events'[k].post.m = events'[k + 1].pre.m
                    /\ metrics'.avgWait = events'[Len(events')].post.m.avgWait
                    /\ metrics'.served = events'[Len(events')].post.m.served
                    /\ \A k \in 1..Len(events') : AvgEvent(events'[k])]_vars

---------------------------------------------------------------------------
(* Properties of start and pause (Spec) *)

\* C14: while the engine is stopped, initially and after pause, no step
\* executes: the clock, the queues, the inventory, the stage clocks, the
\* arrival countdown and the metrics stay as they are until start (a reset
\* asked for by the user apart); a step runs only in a running engine and
\* leaves it running, so pause takes effect between steps.
C14_StoppedFrame ==
    [][/\ Ticked => (running /\ running')
       /\ Pause => UNCHANGED <<now, queues, spots, orderClock, payClock, pickupClock,
                               nextArrival, metrics>>
       /\ (~running /\ ~Reset) =>
             UNCHANGED <<now, queues, spots, orderClock, payClock, pickupClock,
                         nextArrival, metrics>>]_vars

\* C14 witness: the engine was paused with entities in its queues, and a
\* command other than start has been given since
C14_Witness ==
    /\ ~running
    /\ now > 0
    /\ Wip(queues) > 0
    /\ commands = MaxCommands
    /\ metrics.arrivals > 0

---------------------------------------------------------------------------
(* Properties of the clock (Spec, SpecRun) *)

\* C15: every step advances the clock by exactly the fixed delta, the clock
\* never decreases except by reset, and the time a step uses to stamp
\* arrivals and completions, to compare with ready times and to label history
\* samples is the clock as advanced by the steps so far (the value before or
\* after this step's own advance), not a value captured at an earlier tick.
C15_ClockUsed ==
    [][/\ Step => now' = now + minutesPerTick
       /\ now' < now => Reset
       /\ Step => /\ \A k \in 1..Len(admitted') : admitted'[k].car.arrival \in {now, now'}
                  /\ \A k \in 1..Len(events') : events'[k].tnow \in {now, now'}
                  /\ metrics'.history[Len(metrics'.history)].t \in {now, now'}]_vars

---------------------------------------------------------------------------
(* Monotonicity of the Erlang-C estimate (SpecErlang) *)

\* the server counts above that of the call
MoreServers == { s \in 1..MaxErlangS : s > call.s }

---------------------------------------------------------------------------
(* The stages rebalanceServers picks (SpecRebalance) *)

\* the system the last call was made on
SysBefore == [queues |-> queues, params |-> ret.before]

\* C17: when rebalanceServers returns (from, to), the pressure
\* queueLength/(rate*servers + epsilon) of 'to' is maximal among the four
\* stages, 'from' differs from 'to' and had more than 1 server before the
\* call, and every stage other than 'to' whose pressure is strictly lower
\* than that of 'from' had exactly 1 server.
C17_DonorAndTarget ==
    (ret.fn = "rebalanceServers" /\ ret.move # NullMove) =>
        /\ \A n \in StageSet4 :
             ~NumLess(pressure(SysBefore, ret.move.to), pressure(SysBefore, n))
        /\ ret.move.from # ret.move.to
        /\ StageGet(ret.before, ret.move.from) > 1
        /\ \A n \in StageSet4 \ {ret.move.to} :
             NumLess(pressure(SysBefore, n), pressure(SysBefore, ret.move.from))
                 => StageGet(ret.before, n) = 1

\* C17 witness: the donor is not the stage of lowest pressure, which had a
\* single server, and the target is not the first stage
C17_Witness ==
    /\ ret.fn = "rebalanceServers"
    /\ ret.move # NullMove
    /\ ret.move.to # "orderA"
    /\ \E n \in StageSet4 \ {ret.move.to} :
         NumLess(pressure(SysBefore, n), pressure(SysBefore, ret.move.from))

---------------------------------------------------------------------------
(* Curbside completions (SpecRun) *)

\* no step is cut short by the bounds before the horizon
RunFollowed ==
    now < RunHorizon =>
        StepBody([q |-> closure.queues, sp |-> closure.spots, m |-> metrics,
                  na |-> nextArrival, oc |-> orderClock, pc |-> payClock,
                  kc |-> pickupClock, id |-> nextId, log |-> <<>>, ev |-> <<>>],
                 minutesPerTick, closure.now, params) # {}

\* at the horizon the lane stages are empty
RunDrainsLanes ==
    now = RunHorizon =>
        /\ queues.order.A = <<>> /\ queues.order.B = <<>>
        /\ queues.pay = <<>> /\ queues.pickup = <<>>

\* the clock had reached the ready time of the car before the last step
Overdue(car) == car.readyAt # 0 /\ car.readyAt <= now - minutesPerTick

\* C18: a curbside entity is removed, counted as served and has its spot
\* released in the first step in which the clock has reached its ready time:
\* after a step no entity is parked whose ready time the clock had reached
\* before that step.
C18_CompletedWhenReady ==
    \A i \in 1..Len(queues.curbside) : ~Overdue(queues.curbside[i])

\* the entity is in one of the five queues
InSystem(id) == id \in IdSet(queues)

RunSteady ==
    [][(/\ queues.order.A = <<>> /\ queues.order.B = <<>>
        /\ queues.pay = <<>> /\ queues.pickup = <<>>
        /\ nextArrival > minutesPerTick
        /\ \A i \in 1..Len(queues.curbside) : queues.curbside[i].readyAt # 0)
       => /\ queues' = queues
          /\ spots' = spots
          /\ metrics'.served = metrics.served
          /\ closure'.now = closure.now]_vars

\* the same for the entities in the lane stages
LaneEventuallyServed ==
    \A id \in 1..MaxCars :
        (InSystem(id) /\ \A i \in 1..Len(queues.curbside) : queues.curbside[i].id # id)
            ~> ~InSystem(id)

---------------------------------------------------------------------------
(* The stage clocks (Spec) *)

StageQueue(q, stage) ==
    CASE stage = "orderA" -> q.order.A
      [] stage = "orderB" -> q.order.B
      [] stage = "pay" -> q.pay
      [] OTHER -> q.pickup

StageClock(s, stage) ==
    CASE stage = "orderA" -> s.oc.A
      [] stage = "orderB" -> s.oc.B
      [] stage = "pay" -> s.pc
      [] OTHER -> s.kc

\* the head of the stage went to the tail of the next stage, or was served
Released(e) ==
    LET car == Head(StageQueue(e.pre.q, e.stage))
        next == StageQueue(e.post.q, NextStage(e.stage))
    IN /\ StageQueue(e.post.q, e.stage) = Tail(StageQueue(e.pre.q, e.stage))
       /\ IF e.stage = "pickup"
          THEN e.post.m.served = e.pre.m.served + 1
          ELSE /\ Len(next) = Len(StageQueue(e.pre.q, NextStage(e.stage))) + 1
               /\ next[Len(next)].id = car.id
               /\ e.post.m.served = e.pre.m.served

\* what a stage did with its queue and its clock in one step
ClockEvent(e) ==
    LET q0 == StageQueue(e.pre.q, e.stage)
        c0 == StageClock(e.pre, e.stage)
        c1 == StageClock(e.post, e.stage)
        n == StageGet(e.params, e.stage)
        t == ServiceTime(StageRate(e.params, e.stage))
    IN /\ Len(StageQueue(e.post.q, e.stage)) >= Len(q0) - 1
       /\ IF Len(q0) > 0 /\ n > 0
          THEN IF c0 - minutesPerTick * n <= 0
               THEN Released(e) /\ c1 = t
               ELSE /\ StageQueue(e.post.q, e.stage) = q0
                    /\ e.post.m.served = e.pre.m.served
                    /\ c1 = c0 - minutesPerTick * n
          ELSE /\ StageQueue(e.post.q, e.stage) = q0
               /\ e.post.m.served = e.pre.m.served
               /\ c1 = Max(c0, t)

\* C20: in one step each of order A, order B, pay and pickup removes at most
\* one entity whatever its server count.  With a non-empty queue and a
\* positive server count the stage clock decreases by delta * servers, and
\* exactly if the result is <= 0 the head moves to the next stage (or is
\* served) and the clock is set to 1/serviceRate; with an empty queue or 0
\* servers the queue is unchanged and the clock becomes
\* max(clock, 1/serviceRate).
C20_StageClocks ==
    \A k \in 1..Len(events) : events[k].stage # "curbside" => ClockEvent(events[k])

\* C20 witness: in one step the pay stage, with 2 servers and 2 entities
\* waiting, released one of them, and a lane with nothing to do had its
\* clock raised to the service time
C20_Witness ==
    /\ \E k \in 1..Len(events) :
         /\ events[k].stage = "pay"
         /\ events[k].params.payServers = 2
         /\ Len(events[k].pre.q.pay) = 2
         /\ Len(events[k].post.q.pay) = 1
    /\ \E k \in 1..Len(events) :
         /\ events[k].stage = "orderB"
         /\ events[k].pre.q.order.B = <<>>
         /\ events[k].pre.oc.B < events[k].post.oc.B

---------------------------------------------------------------------------
(* What a step does to the parameters (Spec) *)

\* the parameters a step never writes
Tuning(p) ==
    <<p.arrivalRate, p.mobileShare, p.divertThresholdMin, p.orderRate, p.payRate,
      p.pickupRate, p.autoRebalance>>

\* the four server counts
Servers(p) == <<p.orderServers.A, p.orderServers.B, p.payServers, p.pickupServers>>

\* C21: a step changes server counts only through the rebalancer and only
\* when auto-rebalance is enabled: with auto-rebalance disabled no step
\* changes any of the four server counts, and in every case a step leaves
\* arrival rate, mobile share, divert threshold, the three service rates and
\* the auto-rebalance flag unchanged.
C21_StepFrame ==
    [][Ticked =>
          /\ Tuning(params') = Tuning(params)
          /\ ~params.autoRebalance => Servers(params') = Servers(params)
          /\ params' \in {params,
                          rebalanceServers([queues |-> queues', params |-> params]).params}]_vars

\* C21 witness: a step was taken with auto-rebalance disabled on queues and
\* server counts for which the rebalancer would have moved a server
C21_Witness ==
    /\ events # <<>>
    /\ events[1].params = params
    /\ ~params.autoRebalance
    /\ rebalanceServers([queues |-> queues, params |-> params]).move # NullMove

---------------------------------------------------------------------------
(* The history and the watermark (Spec) *)

\* the largest wip of the samples, 0 for an empty history
RECURSIVE MaxSample(_, _)
MaxSample(hist, i) ==
    IF i < 1 THEN 0 ELSE Max(hist[i].wip, MaxSample(hist, i - 1))

\* the history has one sample per step since the last reset, and maxWip is
\* the largest wip among them and at least the current wip
HistoryKept(m, q, t) ==
    /\ Len(m.history) * minutesPerTick = t
    /\ m.maxWip = MaxSample(m.history, Len(m.history))
    /\ m.maxWip >= Wip(q)

\* C22: every step appends exactly one history sample whose wip is the sum
\* of the lengths of order A, order B, pay, pickup and curbside at the end of
\* that step; after every step the history length equals the number of steps
\* since the last reset, and maxWip equals the maximum wip over all samples
\* of the history (so it never decreases within a run and is at least the
\* current wip).
C22_History ==
    [][/\ HistoryKept(metrics', queues', now')
       /\ Ticked =>
            /\ Len(metrics'.history) = Len(metrics.history) + 1
            /\ SubSeq(metrics'.history, 1, Len(metrics.history)) = metrics.history
            /\ metrics'.history[Len(metrics'.history)].wip = Wip(queues')
            /\ metrics'.maxWip >= metrics.maxWip
       /\ metrics'.maxWip < metrics.maxWip => (now' = 0 /\ metrics' = ZeroMetrics)]_vars

\* C22 witness: steps were taken after a reset of the running engine (the
\* last sample carries a time the clock has not reached since), and two
\* entities were in the queues at the end of one of them
C22_Witness ==
    /\ Len(metrics.history) >= 1
    /\ metrics.history[Len(metrics.history)].t > now
    /\ metrics.maxWip >= 2

---------------------------------------------------------------------------
(* The inventory and the parked entities (Spec, SpecLive, SpecRetune) *)

Occupied(sp) == Cardinality({ i \in 1..Len(sp) : sp[i].occupied })

\* the ids of the spots the curbside entities hold
HeldSpots(q) == { q.curbside[i].parkingSpotId : i \in 1..Len(q.curbside) }

\* sp is the inventory g as generated, with the spots held by the curbside
\* entities of q occupied in addition: they were free and are not reserved
HeldOn(g, q, sp) ==
    /\ Len(sp) = Len(g)
    /\ \A i \in 1..Len(g) :
         /\ [sp[i] EXCEPT !.occupied = g[i].occupied] = g[i]
         /\ sp[i].occupied <=> (g[i].occupied \/ sp[i].id \in HeldSpots(q))
         /\ sp[i].id \in HeldSpots(q) => (~g[i].occupied /\ ~g[i].reserved)
    /\ HeldSpots(q) \subseteq { g[i].id : i \in 1..Len(g) }
    /\ Cardinality(HeldSpots(q)) = Len(q.curbside)
    /\ Occupied(sp) = Occupied(g) + Len(q.curbside)

\* the entities the last step routed to curbside
Diverted(adm) ==
    { k \in 1..Len(adm) :
        Len(adm[k].after.q.curbside) = Len(adm[k].before.q.curbside) + 1 }

\* the queues and the inventory always fit some generated inventory, parked
\* counts the entities routed to curbside since the last reset, and only a
\* step and a reset touch the inventory
SpotsAndParked ==
    /\ \E g \in generateSpots : HeldOn(g, queues', spots')
    /\ Ticked => metrics'.parked = metrics.parked + Cardinality(Diverted(admitted'))
    /\ ~Ticked =>
         \/ spots' = spots /\ metrics'.parked = metrics.parked
         \/ now' = 0 /\ metrics'.parked = 0 /\ spots' \in generateSpots

\* a step leaves the occupancy of the reserved spots of the inventory it
\* holds as it is
SpotsKeptByStep ==
    [][/\ SpotsAndParked
       /\ Ticked =>
            \A i \in 1..Len(closure.spots) :
                closure.spots[i].reserved =>
                    spots'[i].occupied = closure.spots[i].occupied]_vars

\* C23: in every reachable state each curbside entity references a spot of
\* the current inventory that is occupied and not reserved, no two curbside
\* entities reference the same spot, the occupancy of a reserved spot never
\* changes (no step changes it in the current inventory), and the number of
\* occupied spots equals the number occupied when the inventory was
\* generated plus the curbside queue length; parked equals the number of
\* entities routed to curbside since the last reset.
C23_SpotsAndParked ==
    [][/\ SpotsAndParked
       /\ Ticked =>
            \A i \in 1..Len(spots) :
                spots[i].reserved => spots'[i].occupied = spots[i].occupied]_vars

\* the last step completed a parked entity and released its spot, in an
\* inventory that holds reserved spots
CompletionReached ==
    /\ events # <<>>
    /\ \E i \in 1..Len(spots) :
         /\ events[5].pre.sp[i].occupied
         /\ ~events[5].post.sp[i].occupied
         /\ ~spots[i].occupied
    /\ Len(events[5].pre.q.curbside) = 1
    /\ queues.curbside = <<>>
    /\ metrics.parked = 1
    /\ \E i \in 1..Len(spots) : spots[i].reserved

---------------------------------------------------------------------------
(* Moves without a bottleneck (SpecRebalance) *)

\* C24: when all four stage queues are empty, rebalanceServers moves no
\* server and returns null; more generally a rebalance never moves a server
\* to a target whose pressure is not strictly greater than the donor's.
C24_NoMoveWithoutBottleneck ==
    ret.fn = "rebalanceServers" =>
        /\ (\A n \in StageSet4 : StageQueueLen(queues, n) = 0) =>
               (ret.move = NullMove /\ params = ret.before)
        /\ ret.move # NullMove =>
               NumLess(pressure(SysBefore, ret.move.from),
                       pressure(SysBefore, ret.move.to))

=============================================================================
